---- MODULE Spec2Model ----
(***************************************************************************)
(* A model of the assert-call crate: the pattern matcher of src/lib.rs     *)
(* (Call::verify and Call::next) and the recording substrate of            *)
(* src/records.rs (thread-scoped and process-scoped storage).              *)
(*                                                                         *)
(* Call identifiers are strings in the crate; here they are the one-digit  *)
(* numbers 1..3, whose numeric order is their string order.                *)
(* Option<T> is a sequence of length 0 (None) or 1 (Some).                 *)
(***************************************************************************)
EXTENDS Integers, Sequences, FiniteSets, TLC

\* Longest trace of recorded calls given to the matcher.
MaxTrace == 3

\* Identifiers used in expected patterns, and identifiers a call may record.
PatIds == {1, 2}
TraceIds == {1, 2, 3}

Range(f) == {f[i] : i \in DOMAIN f}

SeqsUpTo(S, n) == UNION {[1..k -> S] : k \in 0..n}

(***************************************************************************)
(* enum Call { Id(String), Seq(VecDeque<Call>), Par(Vec<Call>),            *)
(*             Any(Vec<Call>) }                                            *)
(***************************************************************************)
CallId(id) == [k |-> "Id", id |-> id, s |-> <<>>]
CallSeq(list) == [k |-> "Seq", id |-> 0, s |-> list]
CallPar(s) == [k |-> "Par", id |-> 0, s |-> s]
CallAny(s) == [k |-> "Any", id |-> 0, s |-> s]

\* Call::empty()
empty == CallSeq(<<>>)

\* struct Record: the identifier, the recording thread, and the event's own
\* identity (file, line and backtrace are carried for display only).
Record(id, thread_id, n) == [id |-> id, thread_id |-> thread_id, n |-> n]

\* Result<(), Vec<String>> of Call::next, with the state self is left in.
NextOk(self) == [ok |-> TRUE, e |-> <<>>, self |-> self]
NextErr(self, e) == [ok |-> FALSE, e |-> e, self |-> self]

\* p.as_ref().map(|x| x.id.as_str())
OptId(p) == [i \in 1..Len(p) |-> p[i].id]

IdNextNoCheck(self, p) == IF p # <<>> THEN NextOk(empty) ELSE NextErr(self, <<self.id>>)

\* Call::next, Call::Id arm
IdNext(self, p) ==
    IF <<self.id>> = OptId(p)
    THEN NextOk(empty)
    ELSE NextErr(self, <<self.id>>)

SeqFrontDoneNever(r) == FALSE

\* Call::next, Call::Seq arm: the guard `Err(e) if e.is_empty()` that pops the front
SeqFrontDone(r) == ~r.ok /\ r.e = <<>>

AnyRetainAll(r) == TRUE

\* Call::next, Call::Any arm: the value the retain_mut closure returns
AnyRetain(r) == r.ok

AnyResultNoEnd(self, is_ok, is_end, es) == IF is_ok THEN NextOk(self) ELSE NextErr(self, es)

\* Call::next, Call::Any arm: the result after retain_mut
AnyResult(self, is_ok, is_end, es) ==
    IF is_ok THEN NextOk(self)
    ELSE IF is_end THEN NextErr(self, <<>>)
    ELSE NextErr(self, es)

RECURSIVE next(_, _)
RECURSIVE SeqLoop(_, _)
RECURSIVE ParLoop(_, _, _, _)
RECURSIVE AnyLoop(_, _, _, _, _, _, _)

\* Call::next, Call::Seq arm: while !list.is_empty() { match list[0].next(p) ... }
SeqLoop(list, p) ==
    IF list = <<>> THEN NextErr(CallSeq(<<>>), <<>>)
    ELSE LET r == next(list[1], p) IN
         IF SeqFrontDone(r) THEN SeqLoop(Tail(list), p)
         ELSE [ok |-> r.ok, e |-> r.e, self |-> CallSeq(<<r.self>> \o Tail(list))]

\* Call::next, Call::Par arm: for i in s.iter_mut(), from child i on
ParLoop(s, i, es, p) ==
    IF i > Len(s) THEN NextErr(CallPar(s), es)
    ELSE LET r == next(s[i], p)
             s2 == [s EXCEPT ![i] = r.self]
         IN  IF r.ok THEN NextOk(CallPar(s2))
             ELSE ParLoop(s2, i + 1, es \o r.e, p)

\* Call::next, Call::Any arm: s.retain_mut(...), from child i on
AnyLoop(s, i, kept, is_end, is_ok, es, p) ==
    IF i > Len(s) THEN AnyResult(CallAny(kept), is_ok, is_end, es)
    ELSE LET r == next(s[i], p) IN
         IF r.ok
         THEN AnyLoop(s, i + 1, Append(kept, r.self), is_end, TRUE, es, p)
         ELSE AnyLoop(s, i + 1,
                      IF AnyRetain(r) THEN Append(kept, r.self) ELSE kept,
                      is_end \/ r.e = <<>>, is_ok, es \o r.e, p)

\* Call::next
next(self, p) ==
    CASE self.k = "Id" -> IdNext(self, p)
      [] self.k = "Seq" -> SeqLoop(self.s, p)
      [] self.k = "Par" -> ParLoop(self.s, 1, <<>>, p)
      [] self.k = "Any" -> AnyLoop(self.s, 1, <<>>, FALSE, FALSE, <<>>, p)

\* impl ToCall for Call: self.clone()
to_call(self) == self

CallerSharesOwned(given, owned) == owned

\* Call::verify(mut self, ..) advances the Call that to_call() returned, which
\* verify owns: the value the caller passed stays as it was
CallerKeeps(given, owned) == given

\* CallMismatchError::new
CallMismatchError_new(expect, mismatch_index) ==
    [msg |-> "", actual |-> <<>>, expect |-> expect, mismatch_index |-> mismatch_index]

\* actual.get(index), index counted from 0
get(actual, index) == IF index < Len(actual) THEN <<actual[index + 1]>> ELSE <<>>

actual_id_end(e, index) == "(end)"

\* CallMismatchError::actual_id: the identifier as the report prints it
actual_id(e, index) ==
    IF get(e.actual, index) # <<>>
    THEN ToString(get(e.actual, index)[1].id)
    ELSE "(end)"

verify_next_no_end_check(self, index, a) ==
    LET r == next(self, a) IN
    IF ~r.ok
    THEN IF r.e = <<>>
         THEN [ok |-> TRUE, self |-> r.self]
         ELSE [ok |-> FALSE, self |-> r.self, err |-> CallMismatchError_new(r.e, index)]
    ELSE [ok |-> TRUE, self |-> r.self]

\* Call::verify_next
verify_next(self, index, a) ==
    LET r == next(self, a) IN
    IF ~r.ok
    THEN IF a = <<>> /\ r.e = <<>>
         THEN [ok |-> TRUE, self |-> r.self]
         ELSE [ok |-> FALSE, self |-> r.self, err |-> CallMismatchError_new(r.e, index)]
    ELSE [ok |-> TRUE, self |-> r.self]

\* Vec::sort on the expected identifiers (insertion into a sorted prefix)
RECURSIVE Insert(_, _)
Insert(x, sorted) ==
    IF sorted = <<>> THEN <<x>>
    ELSE IF x <= sorted[1] THEN <<x>> \o sorted
    ELSE <<sorted[1]>> \o Insert(x, Tail(sorted))

sort_none(v) == v

RECURSIVE sort(_)
sort(v) == IF v = <<>> THEN <<>> ELSE Insert(v[1], sort(Tail(v)))

\* Vec::dedup: removes consecutive repeated elements
RECURSIVE dedup(_)
dedup(v) ==
    IF Len(v) <= 1 THEN v
    ELSE IF v[1] = v[2] THEN dedup(Tail(v))
    ELSE <<v[1]>> \o dedup(Tail(v))

\* Call::verify, the Err arm: fills in the report
verify_err(e, actual, msg) ==
    [e EXCEPT !.actual = actual, !.expect = dedup(sort(e.expect)), !.msg = msg]

\* Call::verify_nexts: for index in 0..=actual.len(), from index on
RECURSIVE verify_nexts(_, _, _)
verify_nexts(self, actual, index) ==
    IF index > Len(actual) THEN [ok |-> TRUE, self |-> self]
    ELSE LET r == verify_next(self, index, get(actual, index)) IN
         IF r.ok THEN verify_nexts(r.self, actual, index + 1) ELSE r

\* Call::verify
verify(self, actual, msg) ==
    LET r == verify_nexts(self, actual, 0) IN
    IF r.ok THEN [ok |-> TRUE]
    ELSE [ok |-> FALSE, err |-> verify_err(r.err, actual, msg)]

(***************************************************************************)
(* The recording substrate of src/records.rs and the sessions of           *)
(* src/lib.rs, run by the threads of one process.                          *)
(***************************************************************************)

\* The threads of the process.
Threads == {"t1", "t2"}

\* Identifiers the threads record with call!().
CallIds == {1, 2}

\* Patterns the threads verify against.
VerifyPats == {empty, CallId(1), CallSeq(<<CallId(1), CallId(2)>>)}

\* Number of call!() invocations made in one run.
MaxEvents == 2

VARIABLES
    ACTUAL_LOCAL,   \* thread_local RefCell<Option<Vec<Record>>>, one cell per thread
    ACTUAL_GLOBAL,  \* the value inside the static Mutex<Option<Vec<Record>>>
    mutex,          \* the thread holding ACTUAL_GLOBAL's lock, if any
    condvar,        \* the threads blocked in ACTUAL_GLOBAL_CONDVAR.wait
    pc,             \* where each thread is
    global,         \* the threads owning a CallRecorder<Global>
    local,          \* the threads owning a CallRecorder<Local>
    record,         \* the Record a thread's call!() has built and not yet stored
    last,           \* the operation that finished last in the process, and how
    n_events,       \* number of Records built so far
    checked,        \* the non-empty traces verify calls have checked, in order
    released,       \* the events that were stored in a process-scoped session's
                    \* trace when the session was released
    m_pc,           \* matcher run: "verify_nexts" or "done"
    m_given,        \* matcher run: the pattern the caller passed
    m_expect,       \* matcher run: the owned Call that verify advances
    m_actual,       \* matcher run: the trace being verified
    m_index,        \* matcher run: the loop index of verify_nexts
    m_result,       \* matcher run: the Result of Call::verify, once returned
    m_first,        \* matcher run: the Result of the caller's earlier verify of
                    \* the same value, when there was one
    f,              \* report: the lines fmt_summary has written to the Formatter
    f_pc,           \* report: where fmt_summary is
    f_index         \* report: the loop index of fmt_summary

rec_vars == <<ACTUAL_LOCAL, ACTUAL_GLOBAL, mutex, condvar, pc, global, local,
              record, last, n_events, checked, released>>
fmt_vars == <<f, f_pc, f_index>>
m_vars == <<m_pc, m_given, m_expect, m_actual, m_index, m_result, m_first, fmt_vars>>
vars == <<rec_vars, m_vars>>

Numbers(v) == {v[i].n : i \in DOMAIN v}

\* How thread t's operation ended: ok is FALSE when it panicked (for verify:
\* when the trace did not match).
After(t, op, ok) == [thread |-> t, op |-> op, ok |-> ok]

\* The state of the process before any session exists.
RecInit ==
    /\ ACTUAL_LOCAL = [t \in Threads |-> <<>>]
    /\ ACTUAL_GLOBAL = <<>>
    /\ mutex = <<>>
    /\ condvar = {}
    /\ pc = [t \in Threads |-> "idle"]
    /\ global = {}
    /\ local = {}
    /\ record = [t \in Threads |-> <<>>]
    /\ last = After("none", "none", TRUE)
    /\ n_events = 0
    /\ checked = <<>>
    /\ released = {}

\* No report being written.
FmtIdle ==
    /\ f = <<>>
    /\ f_pc = "idle"
    /\ f_index = 0

\* No matcher run in progress.
MatchIdle ==
    /\ m_pc = "done"
    /\ m_given = empty
    /\ m_expect = empty
    /\ m_actual = <<>>
    /\ m_index = 0
    /\ m_result = <<>>
    /\ m_first = <<>>
    /\ FmtIdle


InitWaitsOnce(actual, first) == first /\ actual # <<>>

\* Global::init: the loop condition `while actual.is_some()`; first tells the
\* check made right after lock() from the ones made after a wait returned
InitWaits(actual, first) == actual # <<>>

NotifyNone(waiters) == {}

\* Condvar::notify_all: the waiters that are woken
notify_all(waiters) == waiters

LocalInitPanicsAnyThread(cells, t) == \E u \in Threads : cells[u] # <<>>

\* Local::init: `if actual.is_some() { panic!(..) }` on the calling thread's cell
LocalInitPanics(cells, t) == cells[t] # <<>>

LocalInitCellAlways(cell, panics) == << <<>> >>

\* Local::init: the cell after the call; `*actual = Some(Vec::new())` comes
\* after the panic and is not reached when init panics
LocalInitCell(cell, panics) == IF panics THEN cell ELSE << <<>> >>

mem_take_keeps(v) == v

\* std::mem::take: the value left in place of the Vec that is moved out
mem_take(v) == <<>>

UsesLocalNever(cell) == FALSE

\* Records::push: `if let Some(actual) = &mut *actual.borrow_mut()` on the
\* calling thread's cell
UsesLocal(cell) == cell # <<>>

PushNeverPanics(used) == FALSE

\* Records::push: `if !used { panic!(..) }`
PushPanics(used) == ~used

PushToClone(seq, r) == seq

PushReplaces(seq, r) == <<r>>

PushFront(seq, r) == <<r>> \o seq

\* Vec::push on the storage that is in use
VecPush(seq, r) == Append(seq, r)

\* The history of verify calls after one that took `actual` and returned ok
\* (calls that took an empty trace leave no entry).
Checked(actual, ok) ==
    IF actual = <<>> THEN checked
    ELSE Append(checked, [ns |-> Numbers(actual), ok |-> ok])

Free == mutex = <<>>

\* CallRecorder::new, up to the call of ACTUAL_GLOBAL.lock() in Global::init
NewStart(t) ==
    /\ pc[t] = "idle"
    /\ pc' = [pc EXCEPT ![t] = "init_lock"]
    /\ UNCHANGED <<ACTUAL_LOCAL, ACTUAL_GLOBAL, mutex, condvar, global, local,
                   record, last, n_events, checked, released, m_vars>>

\* Global::init: ACTUAL_GLOBAL.lock() returns
InitLock(t) ==
    /\ pc[t] = "init_lock"
    /\ Free
    /\ mutex' = <<t>>
    /\ pc' = [pc EXCEPT ![t] = "init_locked"]
    /\ UNCHANGED <<ACTUAL_LOCAL, ACTUAL_GLOBAL, condvar, global, local,
                   record, last, n_events, checked, released, m_vars>>

\* Global::init: the slot is taken, ACTUAL_GLOBAL_CONDVAR.wait(actual) unlocks
\* the mutex and blocks
InitWait(t) ==
    /\ pc[t] \in {"init_locked", "init_relocked"}
    /\ InitWaits(ACTUAL_GLOBAL, pc[t] = "init_locked")
    /\ mutex' = <<>>
    /\ condvar' = condvar \cup {t}
    /\ pc' = [pc EXCEPT ![t] = "init_wait"]
    /\ UNCHANGED <<ACTUAL_LOCAL, ACTUAL_GLOBAL, global, local,
                   record, last, n_events, checked, released, m_vars>>

WaitTimesOut(t) ==
    /\ pc[t] = "init_wait"
    /\ t \in condvar
    /\ condvar' = condvar \ {t}
    /\ pc' = [pc EXCEPT ![t] = "idle"]
    /\ UNCHANGED <<ACTUAL_LOCAL, ACTUAL_GLOBAL, mutex, global, local,
                   record, last, n_events, checked, released, m_vars>>

\* Condvar::wait may return without a notification (spurious wakeup)
SpuriousWake(t) ==
    /\ pc[t] = "init_wait"
    /\ t \in condvar
    /\ condvar' = condvar \ {t}
    /\ pc' = [pc EXCEPT ![t] = "init_woken"]
    /\ UNCHANGED <<ACTUAL_LOCAL, ACTUAL_GLOBAL, mutex, global, local,
                   record, last, n_events, checked, released, m_vars>>

\* Condvar::wait: the woken thread takes the mutex again before wait returns
InitRelock(t) ==
    /\ pc[t] = "init_woken"
    /\ Free
    /\ mutex' = <<t>>
    /\ pc' = [pc EXCEPT ![t] = "init_relocked"]
    /\ UNCHANGED <<ACTUAL_LOCAL, ACTUAL_GLOBAL, condvar, global, local,
                   record, last, n_events, checked, released, m_vars>>

\* Global::init: the slot is free: *actual = Some(Vec::new()), the guard is
\* dropped, and CallRecorder::new returns the session
InitClaim(t) ==
    /\ pc[t] \in {"init_locked", "init_relocked"}
    /\ ~InitWaits(ACTUAL_GLOBAL, pc[t] = "init_locked")
    /\ ACTUAL_GLOBAL' = << <<>> >>
    /\ mutex' = <<>>
    /\ global' = global \cup {t}
    /\ pc' = [pc EXCEPT ![t] = "idle"]
    /\ last' = After(t, "new", TRUE)
    /\ UNCHANGED <<ACTUAL_LOCAL, condvar, local, record, n_events, checked, released, m_vars>>

\* Drop for Global: ACTUAL_GLOBAL.lock() returns
DropLock(t) ==
    /\ pc[t] = "idle"
    /\ t \in global
    /\ Free
    /\ mutex' = <<t>>
    /\ pc' = [pc EXCEPT ![t] = "drop_locked"]
    /\ UNCHANGED <<ACTUAL_LOCAL, ACTUAL_GLOBAL, condvar, global, local,
                   record, last, n_events, checked, released, m_vars>>

\* Drop for Global: .take() clears the slot, and the guard is dropped at the
\* end of the statement
DropTake(t) ==
    /\ pc[t] = "drop_locked"
    /\ ACTUAL_GLOBAL' = <<>>
    /\ mutex' = <<>>
    /\ global' = global \ {t}
    /\ pc' = [pc EXCEPT ![t] = "drop_notify"]
    /\ released' = released \cup Numbers(ACTUAL_GLOBAL[1])
    /\ UNCHANGED <<ACTUAL_LOCAL, condvar, local, record, last, n_events, checked, m_vars>>

\* Drop for Global: ACTUAL_GLOBAL_CONDVAR.notify_all()
DropNotify(t) ==
    /\ pc[t] = "drop_notify"
    /\ LET woken == notify_all(condvar) IN
       /\ condvar' = condvar \ woken
       /\ pc' = [u \in Threads |->
                    IF u = t THEN "idle"
                    ELSE IF u \in woken THEN "init_woken" ELSE pc[u]]
    /\ last' = After(t, "drop", TRUE)
    /\ UNCHANGED <<ACTUAL_LOCAL, ACTUAL_GLOBAL, mutex, global, local, record,
                   n_events, checked, released, m_vars>>

\* CallRecorder::new_local: Local::init
NewLocal(t) ==
    /\ pc[t] = "idle"
    /\ ACTUAL_LOCAL' = [ACTUAL_LOCAL EXCEPT
            ![t] = LocalInitCell(ACTUAL_LOCAL[t], LocalInitPanics(ACTUAL_LOCAL, t))]
    /\ IF LocalInitPanics(ACTUAL_LOCAL, t)
       THEN /\ last' = After(t, "new_local", FALSE)
            /\ UNCHANGED local
       ELSE /\ local' = local \cup {t}
            /\ last' = After(t, "new_local", TRUE)
    /\ UNCHANGED <<ACTUAL_GLOBAL, mutex, condvar, pc, global, record, n_events,
                   checked, released, m_vars>>

\* Drop for Local
DropLocal(t) ==
    /\ pc[t] = "idle"
    /\ t \in local
    /\ ACTUAL_LOCAL' = [ACTUAL_LOCAL EXCEPT ![t] = <<>>]
    /\ local' = local \ {t}
    /\ last' = After(t, "drop_local", TRUE)
    /\ UNCHANGED <<ACTUAL_GLOBAL, mutex, condvar, pc, global, record, n_events,
                   checked, released, m_vars>>

\* call!(id), Records::push: the thread's own cell is active
PushLocal(t, id) ==
    /\ pc[t] = "idle"
    /\ n_events < MaxEvents
    /\ UsesLocal(ACTUAL_LOCAL[t])
    /\ n_events' = n_events + 1
    /\ ACTUAL_LOCAL' = [ACTUAL_LOCAL EXCEPT
            ![t] = <<VecPush(ACTUAL_LOCAL[t][1], Record(id, t, n_events + 1))>>]
    /\ last' = After(t, "call", TRUE)
    /\ UNCHANGED <<ACTUAL_GLOBAL, mutex, condvar, pc, global, local, record,
                   checked, released, m_vars>>

\* call!(id), Records::push: the thread's own cell is None, up to the call of
\* ACTUAL_GLOBAL.lock()
PushStart(t, id) ==
    /\ pc[t] = "idle"
    /\ n_events < MaxEvents
    /\ ~UsesLocal(ACTUAL_LOCAL[t])
    /\ n_events' = n_events + 1
    /\ record' = [record EXCEPT ![t] = <<Record(id, t, n_events + 1)>>]
    /\ pc' = [pc EXCEPT ![t] = "push_lock"]
    /\ UNCHANGED <<ACTUAL_LOCAL, ACTUAL_GLOBAL, mutex, condvar, global, local,
                   last, checked, released, m_vars>>

\* Records::push: ACTUAL_GLOBAL.lock() returns
PushLock(t) ==
    /\ pc[t] = "push_lock"
    /\ Free
    /\ mutex' = <<t>>
    /\ pc' = [pc EXCEPT ![t] = "push_locked"]
    /\ UNCHANGED <<ACTUAL_LOCAL, ACTUAL_GLOBAL, condvar, global, local,
                   record, last, n_events, checked, released, m_vars>>

\* Records::push: the branch on the slot, the guard's drop, and the panic
\* when nothing was in use
PushGlobal(t) ==
    /\ pc[t] = "push_locked"
    /\ LET used == ACTUAL_GLOBAL # <<>> IN
       /\ ACTUAL_GLOBAL' = IF used
                           THEN <<VecPush(ACTUAL_GLOBAL[1], record[t][1])>>
                           ELSE ACTUAL_GLOBAL
       /\ last' = After(t, "call", ~PushPanics(used))
    /\ mutex' = <<>>
    /\ record' = [record EXCEPT ![t] = <<>>]
    /\ pc' = [pc EXCEPT ![t] = "idle"]
    /\ UNCHANGED <<ACTUAL_LOCAL, condvar, global, local, n_events, checked, released, m_vars>>

\* CallRecorder<Local>::verify: Local::take_actual, then Call::verify
VerifyLocal(t, expect) ==
    /\ pc[t] = "idle"
    /\ t \in local
    /\ LET actual == ACTUAL_LOCAL[t][1] IN
       /\ ACTUAL_LOCAL' = [ACTUAL_LOCAL EXCEPT ![t] = <<mem_take(actual)>>]
       /\ last' = After(t, "verify_local", verify(expect, actual, "mismatch call").ok)
       /\ checked' = Checked(actual, verify(expect, actual, "mismatch call").ok)
    /\ UNCHANGED <<ACTUAL_GLOBAL, mutex, condvar, pc, global, local, record,
                   n_events, released, m_vars>>

\* CallRecorder<Global>::verify: ACTUAL_GLOBAL.lock() of Global::take_actual
\* returns
TakeLock(t) ==
    /\ pc[t] = "idle"
    /\ t \in global
    /\ Free
    /\ mutex' = <<t>>
    /\ pc' = [pc EXCEPT ![t] = "take_locked"]
    /\ UNCHANGED <<ACTUAL_LOCAL, ACTUAL_GLOBAL, condvar, global, local,
                   record, last, n_events, checked, released, m_vars>>

\* CallRecorder<Global>::verify: Global::take_actual moves the trace out and
\* drops the guard, then Call::verify
VerifyGlobal(t, expect) ==
    /\ pc[t] = "take_locked"
    /\ LET actual == ACTUAL_GLOBAL[1] IN
       /\ ACTUAL_GLOBAL' = <<mem_take(actual)>>
       /\ last' = After(t, "verify", verify(expect, actual, "mismatch call").ok)
       /\ checked' = Checked(actual, verify(expect, actual, "mismatch call").ok)
    /\ mutex' = <<>>
    /\ pc' = [pc EXCEPT ![t] = "idle"]
    /\ UNCHANGED <<ACTUAL_LOCAL, condvar, global, local, record, n_events,
                   released, m_vars>>

Init == RecInit /\ MatchIdle

Next ==
    \E t \in Threads :
        \/ NewStart(t) \/ InitLock(t) \/ InitWait(t) \/ SpuriousWake(t)
        \/ InitRelock(t) \/ InitClaim(t)
        \/ DropLock(t) \/ DropTake(t) \/ DropNotify(t)
        \/ NewLocal(t) \/ DropLocal(t)
        \/ \E id \in CallIds : PushLocal(t, id) \/ PushStart(t, id)
        \/ PushLock(t) \/ PushGlobal(t)
        \/ \E expect \in VerifyPats : VerifyLocal(t, expect)
        \/ TakeLock(t)
        \/ \E expect \in VerifyPats : VerifyGlobal(t, expect)

Spec == Init /\ [][Next]_vars

(***************************************************************************)
(* Runs of the matcher: CallRecorder::result_with_msg on a given pattern   *)
(* and a given recorded trace, one iteration of verify_nexts per step.     *)
(***************************************************************************)

\* Patterns by nesting depth: identifiers, lists of identifiers, lists of those.
Pats0 == {CallId(i) : i \in PatIds}
Lists0 == SeqsUpTo(Pats0, 2)
Pats1 == Pats0 \cup {CallSeq(l) : l \in Lists0} \cup {CallPar(l) : l \in Lists0}
               \cup {CallAny(l) : l \in Lists0}
Lists1 == SeqsUpTo(Pats1, 2)
Pats2 == Pats1 \cup {CallSeq(l) : l \in Lists1} \cup {CallPar(l) : l \in Lists1}
               \cup {CallAny(l) : l \in Lists1}

\* Call::seq over plain identifiers (impl ToCall for [T], Vec<T>)
SeqOfIds(ids) == CallSeq([i \in DOMAIN ids |-> CallId(ids[i])])

\* Call::any(["1", "2", "1", "2"]): alternatives that repeat
ManyExpect == CallAny(<<CallId(1), CallId(2), CallId(1), CallId(2)>>)

\* Call::seq([Call::seq(X), E, Call::seq(Y), z1, z2, ..]): lists of identifiers
\* nested in a list, with a pattern E without children among them
Nested(X, E, Y, Z) ==
    CallSeq(<<SeqOfIds(X), E, SeqOfIds(Y)>> \o [i \in DOMAIN Z |-> CallId(Z[i])])

\* Call::empty(), Call::par([]), Call::any([])
Empties == {empty, CallPar(<<>>), CallAny(<<>>)}

\* The lists of identifiers of Lists0.
IdLists == {[i \in DOMAIN l |-> l[i].id] : l \in Lists0}

IdTraces == SeqsUpTo(TraceIds, MaxTrace)
Patterns == Pats2 \cup {SeqOfIds(ids) : ids \in IdTraces} \cup {ManyExpect}
                  \cup UNION {{Nested(X, E, Y, Z) : X \in IdLists, Y \in IdLists, Z \in IdLists}
                                : E \in Empties}

\* The Records a thread-scoped session holds after call!() of each identifier.
RecordsOf(ids) == [i \in DOMAIN ids |-> Record(ids[i], "t1", i)]
IdsOf(actual) == [i \in DOMAIN actual |-> actual[i].id]

\* CallRecorder::result_with_msg: expect.to_call() and take_actual()
MatchInit ==
    /\ m_given \in Patterns
    /\ m_actual \in {RecordsOf(ids) : ids \in IdTraces}
    /\ m_expect = to_call(m_given)
    /\ m_index = 0
    /\ m_pc = "verify_nexts"
    /\ m_result = <<>>
    /\ m_first = <<>>
    /\ FmtIdle
    /\ RecInit

\* verify_nexts: verify_next(index, ..) returned Ok and the loop goes on
VerifyNextOk ==
    /\ m_pc = "verify_nexts"
    /\ m_index < Len(m_actual)
    /\ LET r == verify_next(m_expect, m_index, get(m_actual, m_index)) IN
       /\ r.ok
       /\ m_expect' = r.self
       /\ m_given' = CallerKeeps(m_given, r.self)
       /\ m_index' = m_index + 1
    /\ UNCHANGED <<m_pc, m_actual, m_result, m_first, fmt_vars, rec_vars>>

\* verify_nexts: the last iteration (index == actual.len()) returned Ok
VerifyEndOk ==
    /\ m_pc = "verify_nexts"
    /\ m_index = Len(m_actual)
    /\ LET r == verify_next(m_expect, m_index, get(m_actual, m_index)) IN
       /\ r.ok
       /\ m_expect' = r.self
       /\ m_given' = CallerKeeps(m_given, r.self)
       /\ m_result' = <<[ok |-> TRUE]>>
       /\ m_pc' = "done"
    /\ UNCHANGED <<m_index, m_actual, m_first, fmt_vars, rec_vars>>

\* verify_nexts: verify_next returned Err, and verify fills in the report
VerifyNextErr ==
    /\ m_pc = "verify_nexts"
    /\ LET r == verify_next(m_expect, m_index, get(m_actual, m_index)) IN
       /\ ~r.ok
       /\ m_expect' = r.self
       /\ m_result' = <<[ok |-> FALSE, err |-> verify_err(r.err, m_actual, "mismatch call")]>>
       /\ m_given' = CallerKeeps(m_given, r.self)
       /\ m_pc' = "done"
    /\ UNCHANGED <<m_index, m_actual, m_first, fmt_vars, rec_vars>>

\* The caller verifies the value it passed before once more, after the same
\* calls were recorded again: result_with_msg takes expect.to_call() anew.
VerifyAgain ==
    /\ m_pc = "done"
    /\ m_result # <<>>
    /\ m_first = <<>>
    /\ m_first' = m_result
    /\ m_result' = <<>>
    /\ m_expect' = to_call(m_given)
    /\ m_index' = 0
    /\ m_pc' = "verify_nexts"
    /\ UNCHANGED <<m_given, m_actual, fmt_vars, rec_vars>>

MatchNext == VerifyNextOk \/ VerifyEndOk \/ VerifyNextErr \/ VerifyAgain

MatchSpec == MatchInit /\ [][MatchNext]_vars

MatchDone == m_pc = "done" /\ m_result # <<>>

(***************************************************************************)
(* The summary of the recorded calls that a mismatch report prints:        *)
(* Records::fmt_summary, called by CallMismatchError::fmt_with.            *)
(***************************************************************************)

\* Longest trace whose report is written.
MaxCalls == 20

\* fmt_with: let around = 5
around == 5

\* One line written to the Formatter: head is the "*" or " " in front of an
\* entry, text the entry, count the number in an "omitted" line.
Line(kind, head, text, count) == [kind |-> kind, head |-> head, text |-> text, count |-> count]

\* Records::id
Records_id(self, index) ==
    IF get(self, index) # <<>> THEN ToString(get(self, index)[1].id) ELSE "(end)"

\* Records::fmt_item_summary
fmt_item_summary(kind, is_mismatch, id) ==
    Line(kind, IF is_mismatch THEN "*" ELSE " ", id, 0)

\* fmt_summary: start, after `if mismatch_index > around { start = mismatch_index - around }`
summary_start(mismatch_index) ==
    IF mismatch_index > around THEN mismatch_index - around ELSE 0

min(a, b) == IF a <= b THEN a ELSE b

summary_end_short(self, mismatch_index) == min(mismatch_index + around, Len(self))

\* fmt_summary: let end = min(mismatch_index + around + 1, end)
summary_end(self, mismatch_index) == min(mismatch_index + around + 1, Len(self))

\* The trace of n calls call!("0"), call!("1"), ..
CountingCalls(n) == [i \in 1..n |-> Record(i - 1, "t1", i)]

\* The pattern [0, 1, .., m - 1, MaxCalls]: it departs at index m from every
\* trace of CountingCalls that has m calls or more.
DepartsAt(m) == SeqOfIds([i \in 1..(m + 1) |-> IF i <= m THEN i - 1 ELSE MaxCalls])

\* A verify that has failed, before its report is displayed.
SummaryInit ==
    /\ \E n \in 0..MaxCalls : \E m \in 0..n :
          /\ m_actual = CountingCalls(n)
          /\ m_given = DepartsAt(m)
          /\ m_result = <<verify(m_given, m_actual, "mismatch call")>>
    /\ m_expect = m_given
    /\ m_index = 0
    /\ m_pc = "done"
    /\ m_first = <<>>
    /\ f = <<>>
    /\ f_pc = "fmt_summary"
    /\ f_index = 0
    /\ RecInit

\* fmt_summary up to the loop: the line for the omitted previous calls
FmtPrevious ==
    /\ f_pc = "fmt_summary"
    /\ LET e == m_result[1].err
           start == summary_start(e.mismatch_index)
       IN  /\ f' = IF start > 0 THEN <<Line("previous", " ", "", start)>> ELSE <<>>
           /\ f_index' = start
    /\ f_pc' = "for"
    /\ UNCHANGED <<rec_vars, m_pc, m_given, m_expect, m_actual, m_index, m_result, m_first>>

\* fmt_summary: one iteration of `for index in start..end`
FmtItem ==
    /\ f_pc = "for"
    /\ LET e == m_result[1].err IN
       /\ f_index < summary_end(e.actual, e.mismatch_index)
       /\ f' = Append(f, fmt_item_summary("item", e.mismatch_index = f_index,
                                          Records_id(e.actual, f_index)))
    /\ f_index' = f_index + 1
    /\ UNCHANGED <<rec_vars, f_pc, m_pc, m_given, m_expect, m_actual, m_index, m_result, m_first>>

\* fmt_summary after the loop: the "(end)" row or the line for the omitted
\* following calls
FmtTail ==
    /\ f_pc = "for"
    /\ LET e == m_result[1].err
           end == summary_end(e.actual, e.mismatch_index)
       IN  /\ f_index >= end
           /\ f' = IF end = Len(e.actual)
                   THEN Append(f, fmt_item_summary("end", e.mismatch_index = Len(e.actual), "(end)"))
                   ELSE Append(f, Line("following", " ", "", Len(e.actual) - end))
    /\ f_pc' = "done"
    /\ UNCHANGED <<rec_vars, f_index, m_pc, m_given, m_expect, m_actual, m_index, m_result, m_first>>

SummaryNext == FmtPrevious \/ FmtItem \/ FmtTail

SummarySpec == SummaryInit /\ [][SummaryNext]_vars

(***************************************************************************)
(* Properties of the matcher.                                              *)
(***************************************************************************)

IsSeqOfIds(c) == c.k = "Seq" /\ \A i \in DOMAIN c.s : c.s[i].k = "Id"
ChildIds(c) == [i \in DOMAIN c.s |-> c.s[i].id]

\* The first position (from 0) where two identifier lists differ; only used
\* on lists that differ.
FirstDiff(a, b) ==
    CHOOSE k \in 0..Len(a) :
        /\ \A i \in 1..k : i <= Len(b) /\ a[i] = b[i]
        /\ (k = Len(a) \/ k >= Len(b) \/ a[k + 1] # b[k + 1])

\* C1: verifying Seq(Id(T[0]), ..., Id(T[n-1])) against T succeeds, and against
\* any other trace T' fails with mismatch_index the first position where T' and
\* T differ (in content or in length).
C1_SeqOfIdsFirstMismatch ==
    (MatchDone /\ IsSeqOfIds(m_given)) =>
        LET T == ChildIds(m_given)
            T2 == IdsOf(m_actual)
            res == m_result[1]
        IN  IF T2 = T THEN res.ok
            ELSE ~res.ok /\ res.err.mismatch_index = FirstDiff(T, T2)

\* C1 witness: a two-call pattern verified against a trace of three calls that
\* starts with those two: the report points at index 2, the extra call.
C1_Witness ==
    /\ MatchDone /\ IsSeqOfIds(m_given)
    /\ Len(m_given.s) = 2 /\ Len(m_actual) = 3
    /\ ~m_result[1].ok /\ m_result[1].err.mismatch_index = 2

\* Whether t interleaves x and y, keeping the order within x and within y.
RECURSIVE IsInterleaving(_, _, _)
IsInterleaving(t, x, y) ==
    IF t = <<>> THEN x = <<>> /\ y = <<>>
    ELSE \/ x # <<>> /\ x[1] = t[1] /\ IsInterleaving(Tail(t), Tail(x), y)
         \/ y # <<>> /\ y[1] = t[1] /\ IsInterleaving(Tail(t), x, Tail(y))

IsParOfTwoSeqs(c) ==
    c.k = "Par" /\ Len(c.s) = 2 /\ IsSeqOfIds(c.s[1]) /\ IsSeqOfIds(c.s[2])

\* C2 as claimed: for a Par of two Seqs of Ids, which may share identifiers,
\* every order-preserving interleaving of the two is accepted.
C2_ParAcceptsEveryInterleaving ==
    (MatchDone /\ IsParOfTwoSeqs(m_given)
        /\ IsInterleaving(IdsOf(m_actual), ChildIds(m_given.s[1]), ChildIds(m_given.s[2])))
    => m_result[1].ok

\* C2 amended: for a Par of two Seqs of Ids that have no identifier in common,
\* every order-preserving interleaving of the two is accepted.
C2_ParAcceptsDisjointInterleaving ==
    (MatchDone /\ IsParOfTwoSeqs(m_given)
        /\ Range(ChildIds(m_given.s[1])) \cap Range(ChildIds(m_given.s[2])) = {}
        /\ IsInterleaving(IdsOf(m_actual), ChildIds(m_given.s[1]), ChildIds(m_given.s[2])))
    => m_result[1].ok

\* C2 witness: Par([[1, 1], [2]]) accepts 1, 2, 1 (the second Seq's call falls
\* between the two calls of the first).
C2_Witness ==
    /\ MatchDone /\ IsParOfTwoSeqs(m_given)
    /\ ChildIds(m_given.s[1]) = <<1, 1>> /\ ChildIds(m_given.s[2]) = <<2>>
    /\ IdsOf(m_actual) = <<1, 2, 1>>
    /\ m_result[1].ok

IsAnyOfTwo(c) == c.k = "Any" /\ Len(c.s) = 2

\* verify of one alternative alone, on a fresh copy
Alone(c) == verify(c, m_actual, "mismatch call")

\* C3: verify(Any([A, B]), T) succeeds exactly when verify(A, T) succeeds or
\* verify(B, T) succeeds.
C3_AnyIffEither ==
    (MatchDone /\ IsAnyOfTwo(m_given)) =>
        (m_result[1].ok <=> (Alone(m_given.s[1]).ok \/ Alone(m_given.s[2]).ok))

\* C3 witness: a trace of two calls or more that the second alternative accepts
\* and the first, which accepts the trace's first call, does not.
C3_Witness ==
    /\ MatchDone /\ IsAnyOfTwo(m_given)
    /\ Len(m_actual) >= 2
    /\ m_result[1].ok
    /\ ~Alone(m_given.s[1]).ok /\ Alone(m_given.s[1]).err.mismatch_index >= 1
    /\ Alone(m_given.s[2]).ok

BothFail(c) == ~Alone(c.s[1]).ok /\ ~Alone(c.s[2]).ok

\* C4 as claimed: when neither A nor B accepts the trace, the report of
\* Any([A, B]) expects the union of what the two alternatives expected where
\* they failed.
C4_AnyExpectsUnion ==
    (MatchDone /\ IsAnyOfTwo(m_given) /\ BothFail(m_given)) =>
        /\ ~m_result[1].ok
        /\ Range(m_result[1].err.expect) =
              Range(Alone(m_given.s[1]).err.expect) \cup Range(Alone(m_given.s[2]).err.expect)

\* The alternatives of c that fail at index k when verified alone.
FailingAt(c, k) == {i \in DOMAIN c.s : Alone(c.s[i]).err.mismatch_index = k}

\* C4 amended: when neither A nor B accepts the trace, Any([A, B]) fails at the
\* larger of the two alternatives' own mismatch indices; it expects the union of
\* what the alternatives failing at that index expected, except that it expects
\* nothing when one of them had nothing left to expect there.
C4_AnyExpectsUnionOfLast ==
    (MatchDone /\ IsAnyOfTwo(m_given) /\ BothFail(m_given)) =>
        LET a == Alone(m_given.s[1]).err
            b == Alone(m_given.s[2]).err
            k == IF a.mismatch_index >= b.mismatch_index
                 THEN a.mismatch_index ELSE b.mismatch_index
            at == FailingAt(m_given, k)
            res == m_result[1]
        IN  /\ ~res.ok
            /\ res.err.mismatch_index = k
            /\ Range(res.err.expect) =
                 IF \E i \in at : Alone(m_given.s[i]).err.expect = <<>>
                 THEN {}
                 ELSE UNION {Range(Alone(m_given.s[i]).err.expect) : i \in at}

\* C4 witness: both alternatives fail at the same index with different
\* expectations, and the report lists both.
C4_Witness ==
    /\ MatchDone /\ IsAnyOfTwo(m_given) /\ BothFail(m_given)
    /\ Alone(m_given.s[1]).err.mismatch_index = 1
    /\ Alone(m_given.s[2]).err.mismatch_index = 1
    /\ Alone(m_given.s[1]).err.expect = <<1>>
    /\ Alone(m_given.s[2]).err.expect = <<2>>
    /\ m_result[1].err.expect = <<1, 2>>

PlainIds(c) == IF c.k = "Id" THEN <<c.id>> ELSE ChildIds(c)

\* C14: for a Seq of Ids P (or a single Id) and a trace T that first differs
\* from P at a position k < len(P), the report has mismatch_index k, expects
\* exactly P[k], and its actual identifier is T[k], or "(end)" when T ends at k.
C14_SeqOfIdsReport ==
    (MatchDone /\ (IsSeqOfIds(m_given) \/ m_given.k = "Id")
        /\ IdsOf(m_actual) # PlainIds(m_given)
        /\ FirstDiff(PlainIds(m_given), IdsOf(m_actual)) < Len(PlainIds(m_given))) =>
        LET P == PlainIds(m_given)
            T == IdsOf(m_actual)
            k == FirstDiff(P, T)
            res == m_result[1]
        IN  /\ ~res.ok
            /\ res.err.mismatch_index = k
            /\ res.err.expect = <<P[k + 1]>>
            /\ actual_id(res.err, res.err.mismatch_index) =
                  IF k < Len(T) THEN ToString(T[k + 1]) ELSE "(end)"

\* C14 witness: the trace 1, 2 verified against [1, 3]: index 1, expected 3,
\* actual 2.
C14_Witness ==
    /\ MatchDone /\ IsSeqOfIds(m_given)
    /\ ChildIds(m_given) = <<1, 3>> /\ IdsOf(m_actual) = <<1, 2>>
    /\ m_result[1].err.mismatch_index = 1
    /\ m_result[1].err.expect = <<3>>
    /\ actual_id(m_result[1].err, 1) = "2"

\* A Seq, Par or Any without children.
NoChildren(c) == c.k \in {"Seq", "Par", "Any"} /\ c.s = <<>>

\* C15: each of Seq([]), Par([]) and Any([]) accepts the empty trace and
\* rejects every non-empty trace at mismatch_index 0.
C15_NoChildrenAcceptsOnlyEmpty ==
    (MatchDone /\ NoChildren(m_given)) =>
        IF m_actual = <<>>
        THEN m_result[1].ok
        ELSE ~m_result[1].ok /\ m_result[1].err.mismatch_index = 0

\* C15 witness: Any([]) has rejected a trace of two calls at index 0, with
\* nothing expected.
C15_Witness ==
    /\ MatchDone
    /\ m_given = CallAny(<<>>)
    /\ Len(m_actual) = 2
    /\ ~m_result[1].ok
    /\ m_result[1].err.mismatch_index = 0
    /\ m_result[1].err.expect = <<>>

\* C16: in every report of a failing verify, the expected identifiers are in
\* ascending order without repetition.
C16_ExpectSortedDeduped ==
    (MatchDone /\ ~m_result[1].ok) =>
        LET expect == m_result[1].err.expect IN
        \A i, j \in DOMAIN expect : i < j => expect[i] < expect[j]

\* C16 witness: Any([1, 2, 1, 2]) verified against a trace whose only call is
\* none of them reports expected 1, 2.
C16_Witness ==
    /\ MatchDone
    /\ m_given = ManyExpect
    /\ IdsOf(m_actual) = <<3>>
    /\ ~m_result[1].ok
    /\ m_result[1].err.expect = <<1, 2>>

\* The lines of one kind in the summary written so far, in order.
Lines(kind) == SelectSeq(f, LAMBDA l : l.kind = kind)

\* C17: the summary of a trace of n calls with mismatch index m lists the
\* entries max(0, m-5) .. min(m+5, n-1), is preceded by the count max(0, m-5)
\* of omitted previous calls when that is positive, and ends with the "(end)"
\* row when no following call is omitted and with the count n - min(m+6, n) of
\* omitted following calls otherwise; listed entries and the two counts sum to
\* n; exactly one row is marked, the one at index m.
C17_SummaryWindow ==
    f_pc = "done" =>
        LET n == Len(m_result[1].err.actual)
            m == m_result[1].err.mismatch_index
            lo == IF m - 5 > 0 THEN m - 5 ELSE 0
            hi == IF m + 5 < n - 1 THEN m + 5 ELSE n - 1
            after == n - (IF m + 6 < n THEN m + 6 ELSE n)
            marked == {i \in DOMAIN f : f[i].head = "*"}
        IN  /\ Lines("item") =
                  [k \in 1..(hi - lo + 1) |-> Line("item", IF lo + k - 1 = m THEN "*" ELSE " ",
                                                   ToString(lo + k - 1), 0)]
            /\ IF lo > 0
               THEN f[1] = Line("previous", " ", "", lo) /\ Len(Lines("previous")) = 1
               ELSE Lines("previous") = <<>>
            /\ IF after = 0
               THEN /\ f[Len(f)].kind = "end" /\ f[Len(f)].text = "(end)"
                    /\ Len(Lines("end")) = 1 /\ Lines("following") = <<>>
               ELSE /\ f[Len(f)] = Line("following", " ", "", after)
                    /\ Len(Lines("following")) = 1 /\ Lines("end") = <<>>
            /\ Len(Lines("item")) + lo + after = n
            /\ Cardinality(marked) = 1
            /\ \A i \in marked :
                  IF m < n THEN f[i].kind = "item" /\ f[i].text = ToString(m)
                  ELSE f[i].kind = "end"

\* C17 witness: 20 calls with the mismatch at index 10: 5 previous calls
\* omitted, the entries 5 to 15 listed with 10 marked, 4 following calls omitted.
C17_Witness ==
    /\ f_pc = "done"
    /\ Len(m_result[1].err.actual) = 20
    /\ m_result[1].err.mismatch_index = 10
    /\ Len(f) = 13
    /\ f[1] = Line("previous", " ", "", 5)
    /\ f[2] = Line("item", " ", "5", 0)
    /\ f[7] = Line("item", "*", "10", 0)
    /\ f[12] = Line("item", " ", "15", 0)
    /\ f[13] = Line("following", " ", "", 4)

\* The call (or the end of the trace) the next step of verify_nexts gives to
\* the pattern.
Incoming == get(m_actual, m_index)

\* The child of a Par that consumes p: the first in list order that accepts it.
Consumer(c, p) ==
    CHOOSE i \in DOMAIN c.s :
        /\ next(c.s[i], p).ok
        /\ \A j \in 1..(i - 1) : ~next(c.s[j], p).ok

\* C18: when the step of a Par consumes the call, every child but the one
\* that consumed it is in the state it had before the step, the children tried
\* before it included.
C18_ParSiblingsUntouched ==
    [][(m_pc = "verify_nexts" /\ m_expect.k = "Par" /\ next(m_expect, Incoming).ok) =>
          \A j \in DOMAIN m_expect.s :
              j # Consumer(m_expect, Incoming) => m_expect'.s[j] = m_expect.s[j]]_vars

\* C18 witness: Par([Any([1]), 2]) has consumed the call 2 with its second
\* child, and its first child, which was tried first, has lost its alternative.
C18_Witness ==
    /\ m_given = CallPar(<<CallAny(<<CallId(1)>>), CallId(2)>>)
    /\ IdsOf(m_actual) = <<2>>
    /\ m_first = <<>>
    /\ m_index = 1
    /\ m_expect = CallPar(<<CallAny(<<>>), empty>>)

\* The calls of T at the positions in S, in order.
Pick(T, S) ==
    LET F[i \in 0..Len(T)] ==
            IF i = 0 THEN <<>>
            ELSE IF i \in S THEN Append(F[i - 1], T[i]) ELSE F[i - 1]
    IN  F[Len(T)]

\* The language of a pattern: L(Id x) = {[x]}; L(Seq) the in-order
\* concatenations of one word of each child; L(Par) the interleavings of one
\* word of each child; L(Any) the union of the children's languages, and the
\* empty trace alone for an Any without children (the nothing-more-expected
\* pattern).
RECURSIVE InLang(_, _)
RECURSIVE InSeqLang(_, _)
RECURSIVE InParLang(_, _)
InSeqLang(list, T) ==
    IF list = <<>> THEN T = <<>>
    ELSE \E k \in 0..Len(T) :
            /\ InLang(list[1], SubSeq(T, 1, k))
            /\ InSeqLang(Tail(list), SubSeq(T, k + 1, Len(T)))

InParLang(list, T) ==
    IF list = <<>> THEN T = <<>>
    ELSE \E S \in SUBSET (1..Len(T)) :
            /\ InLang(list[1], Pick(T, S))
            /\ InParLang(Tail(list), Pick(T, (1..Len(T)) \ S))

InLang(c, T) ==
    CASE c.k = "Id" -> T = <<c.id>>
      [] c.k = "Seq" -> InSeqLang(c.s, T)
      [] c.k = "Par" -> InParLang(c.s, T)
      [] c.k = "Any" -> IF c.s = <<>> THEN T = <<>>
                        ELSE \E i \in DOMAIN c.s : InLang(c.s[i], T)

\* C19: verify is sound: a trace that verify accepts is in the language of the
\* pattern.
C19_VerifySound ==
    (MatchDone /\ m_result[1].ok) => InLang(m_given, IdsOf(m_actual))

\* C19 witness: Par([Any([1]), 2]) has accepted the trace whose only call is 2.
C19_Witness ==
    /\ MatchDone
    /\ m_given = CallPar(<<CallAny(<<CallId(1)>>), CallId(2)>>)
    /\ IdsOf(m_actual) = <<2>>
    /\ m_result[1].ok
    /\ ~InLang(m_given, IdsOf(m_actual))

\* A Seq of the shape [Seq(X), E, Seq(Y), z1, z2, ..] over identifiers, with
\* E one of Seq([]), Par([]), Any([]).
IsNested(c) ==
    /\ c.k = "Seq" /\ Len(c.s) >= 3
    /\ IsSeqOfIds(c.s[1]) /\ c.s[2] \in Empties /\ IsSeqOfIds(c.s[3])
    /\ \A i \in 4..Len(c.s) : c.s[i].k = "Id"

\* Seq(X ++ Y ++ Z) for such a pattern.
Flat(c) ==
    SeqOfIds(ChildIds(c.s[1]) \o ChildIds(c.s[3])
                \o [i \in 1..(Len(c.s) - 3) |-> c.s[i + 3].id])

\* C24: verifying Seq([Seq(X), E, Seq(Y), Z..]), with E a pattern without
\* children, and verifying Seq(X ++ Y ++ Z) against the same trace give the same outcome, and when
\* they fail the same mismatch_index and the same expected identifiers.
C24_NestedSeqIsFlat ==
    (MatchDone /\ IsNested(m_given)) =>
        LET flat == verify(Flat(m_given), m_actual, "mismatch call")
            res == m_result[1]
        IN  /\ res.ok = flat.ok
            /\ ~res.ok => /\ res.err.mismatch_index = flat.err.mismatch_index
                          /\ res.err.expect = flat.err.expect

\* C24 witness: Seq([Seq([1]), Seq([]), Seq([2]), 1]) verified against the
\* trace 1, 2, 2 fails at index 2 expecting 1, as Seq([1, 2, 1]) does.
C24_Witness ==
    /\ MatchDone
    /\ m_given = Nested(<<1>>, empty, <<2>>, <<1>>)
    /\ IdsOf(m_actual) = <<1, 2, 2>>
    /\ ~m_result[1].ok
    /\ m_result[1].err.mismatch_index = 2
    /\ m_result[1].err.expect = <<1>>

(***************************************************************************)
(* Properties of the recording substrate and of the sessions.              *)
(***************************************************************************)

\* C5: at most one process-scoped session is active at a time, and while one
\* is active the slot is taken.
C5_OneGlobalSession ==
    /\ Cardinality(global) <= 1
    /\ global # {} => ACTUAL_GLOBAL # <<>>

\* C5 witness: a thread holds the process-scoped session while another thread
\* is blocked in new(), waiting on the condition variable.
C5_Witness ==
    \E t, u \in Threads :
        /\ t # u
        /\ global = {t}
        /\ last = After(t, "new", TRUE)
        /\ pc[u] = "init_wait"

\* A step in which thread t's call!() inspects the process-scoped slot.
PushGlobalStep(t) == pc[t] = "push_locked" /\ pc'[t] = "idle"

\* C7: a call!() by a thread without a thread-scoped session, made while no
\* process-scoped session is active, panics and records nothing.
C7_PushWithoutSessionPanics ==
    [][\A t \in Threads :
          (PushGlobalStep(t) /\ ACTUAL_LOCAL[t] = <<>> /\ ACTUAL_GLOBAL = <<>>) =>
              /\ last' = After(t, "call", FALSE)
              /\ ACTUAL_GLOBAL' = <<>>
              /\ ACTUAL_LOCAL' = ACTUAL_LOCAL]_vars

\* C7 witness: a call!() has just panicked, with no session anywhere.
C7_Witness ==
    /\ last.op = "call" /\ ~last.ok
    /\ ACTUAL_GLOBAL = <<>>
    /\ \A t \in Threads : ACTUAL_LOCAL[t] = <<>>
    /\ n_events = 1

\* A step in which thread t's call!() stores its Record in the thread's own cell.
PushLocalStep(t) ==
    /\ n_events' = n_events + 1
    /\ record' = record
    /\ ACTUAL_LOCAL[t] # <<>>
    /\ ACTUAL_LOCAL'[t] # ACTUAL_LOCAL[t]

Seen == UNION {checked[i].ns : i \in DOMAIN checked}

\* A step in which thread t's verify on its process-scoped session drains it.
VerifyGlobalStep(t) == pc[t] = "take_locked" /\ pc'[t] = "idle"

\* A step in which thread t's verify on its thread-scoped session drains it
\* (a verify that finds the trace empty and ends as the one before changes nothing).
VerifyLocalStep(t) ==
    /\ last'.op = "verify_local" /\ last'.thread = t
    /\ (last' # last \/ ACTUAL_LOCAL' # ACTUAL_LOCAL \/ checked' # checked)

\* What a verify that finds `before` stored must do: leave the trace empty,
\* check all of `before`, and nothing an earlier verify checked.
Drains(before, after) ==
    /\ after = << <<>> >>
    /\ Numbers(before[1]) \cap Seen = {}
    /\ Seen' = Seen \cup Numbers(before[1])

\* C9: each verify checks exactly the events stored in its session since the
\* session's previous verify, failed or not: it leaves the stored trace empty
\* and no event is checked by two verify calls.
C9_VerifyDrains ==
    [][/\ \A t \in Threads :
            /\ VerifyGlobalStep(t) => Drains(ACTUAL_GLOBAL, ACTUAL_GLOBAL')
            /\ VerifyLocalStep(t) => Drains(ACTUAL_LOCAL[t], ACTUAL_LOCAL'[t])
       /\ \A i, j \in DOMAIN checked' : i # j => checked'[i].ns \cap checked'[j].ns = {}]_vars

\* C9 witness: two verify calls have checked one event each, the first of them
\* failed, and the session they ran on is still active with an empty trace.
C9_Witness ==
    /\ Len(checked) = 2
    /\ ~checked[1].ok /\ checked[2].ok
    /\ last.op = "verify"
    /\ global = {last.thread}
    /\ ACTUAL_GLOBAL = << <<>> >>
    /\ n_events = 2

\* A step in which thread t's new_local() returns or panics (a panic that
\* follows the same thread's panic changes nothing).
NewLocalStep(t) ==
    /\ last'.op = "new_local" /\ last'.thread = t
    /\ (last' # last \/ ACTUAL_LOCAL' # ACTUAL_LOCAL)

\* C10: new_local() panics exactly when the calling thread already has an
\* active thread-scoped session, whatever the other threads hold; it is one
\* step that waits for nothing; when it succeeds the thread's cell is active
\* and empty; and dropping the session clears the cell, so that the next
\* new_local() of the thread succeeds.
C10_NewLocalPanicsIffActive ==
    [][\A t \in Threads :
          /\ NewLocalStep(t) =>
                /\ ~last'.ok <=> t \in local
                /\ last'.ok => (t \in local' /\ ACTUAL_LOCAL'[t] = << <<>> >>)
                /\ pc'[t] = "idle"
          /\ (t \in local /\ t \notin local') => ACTUAL_LOCAL'[t] = <<>>
          /\ t \in local' <=> ACTUAL_LOCAL'[t] # <<>>
          /\ pc[t] = "idle" => ENABLED NewLocal(t)]_vars

\* C10 witness: a thread's second new_local() has panicked; its session and
\* another thread's are both still active.
C10_Witness ==
    \E t, u \in Threads :
        /\ t # u
        /\ last = After(t, "new_local", FALSE)
        /\ t \in local
        /\ u \in local

\* The events stored in the process-scoped trace.
Stored == IF ACTUAL_GLOBAL = <<>> THEN {} ELSE Numbers(ACTUAL_GLOBAL[1])

\* A step in which the process-scoped session is released with its trace.
ReleaseStep == ACTUAL_GLOBAL # <<>> /\ ACTUAL_GLOBAL' = <<>>

\* C11: with a process-scoped session active, call!() from several threads
\* without a thread-scoped session, interleaved with the holder's verify calls:
\* each call!() adds its event once, to the stored trace only; a verify moves
\* the stored events to the trace it drains; no other step but the release
\* removes an event from the stored trace; and no event is stored twice or is
\* both stored and in a drained trace.
C11_EveryEventInOnePlace ==
    [][/\ \A t \in Threads :
            (PushGlobalStep(t) /\ ACTUAL_GLOBAL # <<>>) =>
                /\ record[t][1].n \notin Stored \cup Seen
                /\ ACTUAL_GLOBAL' = <<Append(ACTUAL_GLOBAL[1], record[t][1])>>
                /\ checked' = checked
       /\ ~ReleaseStep => Stored \cup Seen \subseteq Stored' \cup Seen'
       /\ ACTUAL_GLOBAL' # <<>> => Cardinality(Stored') = Len(ACTUAL_GLOBAL'[1])
       /\ Stored' \cap Seen' = {}
       /\ \A i, j \in DOMAIN checked' : i # j => checked'[i].ns \cap checked'[j].ns = {}]_vars

\* C11 witness: a verify of the process-scoped session has drained one thread's
\* event, and the stored trace now holds an event pushed by a thread that is
\* not the holder.
C11_Witness ==
    \E t, u \in Threads :
        /\ t # u
        /\ global = {t}
        /\ Len(checked) = 1 /\ checked[1].ns = {1}
        /\ last = After(u, "call", TRUE)
        /\ ACTUAL_GLOBAL # <<>>
        /\ Stored = {2}
        /\ ACTUAL_GLOBAL[1][1].thread_id = u

\* The Records of one thread appear in trace v in the order the thread built
\* them (a thread builds a Record at each call!(), one call after the other).
InCallOrder(v) ==
    \A i, j \in DOMAIN v :
        (i < j /\ v[i].thread_id = v[j].thread_id) => v[i].n < v[j].n

\* C12: in every stored trace, and so in every trace a verify drains, the
\* events of one thread appear in the order of that thread's call!()
\* invocations, whatever the interleaving with other threads.
C12_ThreadOrderKept ==
    /\ ACTUAL_GLOBAL # <<>> => InCallOrder(ACTUAL_GLOBAL[1])
    /\ \A t \in Threads : ACTUAL_LOCAL[t] # <<>> => InCallOrder(ACTUAL_LOCAL[t][1])

\* C12 witness: the holder's verify is about to drain a process-scoped trace
\* that holds two events of one other thread.
C12_Witness ==
    \E t, u \in Threads :
        /\ t # u
        /\ pc[t] = "take_locked"
        /\ ACTUAL_GLOBAL # <<>>
        /\ Len(ACTUAL_GLOBAL[1]) = 2
        /\ ACTUAL_GLOBAL[1][1].thread_id = u /\ ACTUAL_GLOBAL[1][2].thread_id = u

\* A step in which thread t's call!() finds its own cell None and goes on to
\* the process-scoped slot.
PushStartStep(t) == record[t] = <<>> /\ record'[t] # <<>>

\* C20: a call!() of a thread with an active thread-scoped session appends
\* the event to that thread's trace only, and leaves the process-scoped slot
\* as it is, active or not; a call!() of a thread without one goes to the
\* process-scoped slot, appends the event to its trace when a session is
\* active there, and leaves every thread-scoped trace as it is.
C20_PushRouting ==
    [][\A t \in Threads :
          /\ PushLocalStep(t) =>
                /\ ACTUAL_LOCAL' = [ACTUAL_LOCAL EXCEPT
                      ![t] = <<Append(ACTUAL_LOCAL[t][1], ACTUAL_LOCAL'[t][1][Len(ACTUAL_LOCAL'[t][1])])>>]
                /\ ACTUAL_LOCAL'[t][1][Len(ACTUAL_LOCAL'[t][1])].n = n_events'
                /\ ACTUAL_LOCAL'[t][1][Len(ACTUAL_LOCAL'[t][1])].thread_id = t
                /\ ACTUAL_GLOBAL' = ACTUAL_GLOBAL
          /\ PushStartStep(t) =>
                /\ ACTUAL_LOCAL[t] = <<>>
                /\ ACTUAL_LOCAL' = ACTUAL_LOCAL /\ ACTUAL_GLOBAL' = ACTUAL_GLOBAL
          /\ PushGlobalStep(t) =>
                /\ ACTUAL_LOCAL[t] = <<>>
                /\ ACTUAL_LOCAL' = ACTUAL_LOCAL
                /\ ACTUAL_GLOBAL' = IF ACTUAL_GLOBAL # <<>>
                                    THEN <<Append(ACTUAL_GLOBAL[1], record[t][1])>>
                                    ELSE <<>>]_vars

\* C20 witness: with one thread holding the process-scoped session and
\* another a thread-scoped one, each has made one call: the holder's is in
\* the process-scoped trace, the other's in its own thread's trace.
C20_Witness ==
    \E t, u \in Threads :
        /\ t # u
        /\ global = {t} /\ local = {u}
        /\ last = After(u, "call", TRUE)
        /\ ACTUAL_GLOBAL # <<>> /\ Len(ACTUAL_GLOBAL[1]) = 1
        /\ ACTUAL_GLOBAL[1][1].thread_id = t
        /\ Len(ACTUAL_LOCAL[u][1]) = 1
        /\ ACTUAL_LOCAL[u][1][1].thread_id = u

\* A step in which a thread's new() returns with the process-scoped session.
ClaimStep == global' \ global # {}

\* C21: the events stored while one process-scoped session holds the slot are
\* never in a trace that a verify of another process-scoped session drains:
\* a session is claimed only when no other holds the slot and starts from an
\* empty trace; only the one holder's verify drains the slot; a release
\* discards what was stored and not drained; and a discarded event is never
\* stored again, nor drained by any verify.
C21_SessionsShareNoEvent ==
    [][/\ ClaimStep =>
            /\ global = {} /\ ACTUAL_GLOBAL = <<>>
            /\ ACTUAL_GLOBAL' = << <<>> >>
       /\ ReleaseStep =>
            /\ released' = released \cup Stored
            /\ Stored' = {} /\ checked' = checked
       /\ \A t \in Threads :
            VerifyGlobalStep(t) =>
                /\ global = {t}
                /\ Stored \cap (released \cup Seen) = {}
                /\ Seen' = Seen \cup Stored
       /\ released' \cap (Stored' \cup Seen') = {}]_vars

\* C21 witness: one session was released with an event it had not drained,
\* and the next session's verify has since drained another event, pushed
\* while that session held the slot.
C21_Witness ==
    /\ released = {1}
    /\ Len(checked) = 1 /\ checked[1].ns = {2}
    /\ last.op = "verify"
    /\ global = {last.thread}
    /\ ACTUAL_GLOBAL = << <<>> >>

(***************************************************************************)
(* Progress of CallRecorder::new.  The threads are OS threads: a thread     *)
(* that is inside an operation and can run does run, and a thread waiting  *)
(* for the mutex gets it if the mutex is released again and again.  No     *)
(* thread is obliged to start an operation, and a spurious wakeup need     *)
(* never happen.                                                           *)
(***************************************************************************)
Fairness ==
    \A t \in Threads :
        /\ SF_vars(InitLock(t))
        /\ SF_vars(InitRelock(t))
        /\ SF_vars(PushLock(t))
        /\ WF_vars(InitWait(t))
        /\ WF_vars(InitClaim(t))
        /\ WF_vars(DropTake(t))
        /\ WF_vars(DropNotify(t))
        /\ WF_vars(PushGlobal(t))

\* The operations that use ACTUAL_GLOBAL's mutex and condition variable on the
\* way into and out of a process-scoped session: new(), the session's drop,
\* and call!() from threads without a thread-scoped session.
GlobalNext ==
    \E t \in Threads :
        \/ NewStart(t) \/ InitLock(t) \/ InitWait(t) \/ SpuriousWake(t)
        \/ InitRelock(t) \/ InitClaim(t)
        \/ DropLock(t) \/ DropTake(t) \/ DropNotify(t)
        \/ \E id \in CallIds : PushStart(t, id)
        \/ PushLock(t) \/ PushGlobal(t)

FairSpec == Init /\ [][GlobalNext]_vars /\ Fairness

\* Thread t is inside CallRecorder::new().
InNew(t) == pc[t] \in {"init_lock", "init_locked", "init_wait", "init_woken", "init_relocked"}

\* Every thread that acquires a process-scoped session eventually drops it.
EveryHolderDrops == \A t \in Threads : [](t \in global => <>(t \notin global))

\* From some point on no thread other than t is inside CallRecorder::new().
OthersStopAsking(t) == <>[](\A u \in Threads \ {t} : ~InNew(u))

\* No lost wakeup: a thread is blocked on the condition variable with the slot
\* free only between a release's clearing of the slot and its notify_all.
NoLostWakeup ==
    (ACTUAL_GLOBAL = <<>> /\ condvar # {}) => \E u \in Threads : pc[u] = "drop_notify"

\* C6 as claimed: if every thread that acquires a process-scoped session
\* eventually drops it, every thread inside new() eventually returns from it.
C6_EveryWaiterAcquires ==
    EveryHolderDrops => \A t \in Threads : [](InNew(t) => <>(~InNew(t)))

\* C6 amended: a release never leaves a waiter blocked while the slot is free;
\* and if every thread that acquires a process-scoped session eventually drops
\* it, a thread inside new() eventually returns from it provided the other
\* threads stop calling new() at some point.
C6_WaiterAcquiresUnlessOvertaken ==
    /\ []NoLostWakeup
    /\ \A t \in Threads :
          (EveryHolderDrops /\ OthersStopAsking(t)) => [](InNew(t) => <>(~InNew(t)))

\* C6 witness: a thread that waited on the condition variable has been woken
\* by a release, holds the mutex again and finds the slot free.
C6_Witness ==
    \E t \in Threads :
        /\ pc[t] = "init_relocked"
        /\ ACTUAL_GLOBAL = <<>>
        /\ last.op = "drop" /\ last.thread # t

\* Thread t holds a process-scoped session and is inside another call of
\* CallRecorder::new().
HolderInNew(t) ==
    /\ t \in global
    /\ pc[t] \in {"init_lock", "init_locked", "init_wait", "init_woken", "init_relocked"}

\* C22: a thread that calls new() while it holds the process-scoped session
\* never returns from the call: it stays inside new() and the slot stays
\* taken by the session only that thread could release, whatever the other
\* threads do and however often its wait wakes up.
C22_HolderBlocksForever ==
    [][\A t \in Threads :
          HolderInNew(t) =>
              /\ HolderInNew(t)'
              /\ ACTUAL_GLOBAL' # <<>>
              /\ global' = {t}
              /\ ~ENABLED InitClaim(t)
              /\ ~ENABLED DropLock(t)]_vars

\* C22 witness: the holder's second new() has found the slot taken and waits
\* on the condition variable, and so does another thread's new().
C22_Witness ==
    \E t \in Threads :
        /\ HolderInNew(t)
        /\ pc[t] = "init_wait" /\ t \in condvar
        /\ last = After(t, "new", TRUE)
        /\ mutex = <<>>
        /\ \E u \in Threads \ {t} : pc[u] = "init_wait"

\* C23: a new_local() that panics because the thread already has a
\* thread-scoped session leaves that session as it was: the thread's cell is
\* still active and holds the same events in the same order, and the thread
\* still owns the session.
C23_PanickedNewLocalKeepsSession ==
    [][\A t \in Threads :
          (NewLocalStep(t) /\ ~last'.ok) =>
              /\ ACTUAL_LOCAL[t] # <<>>
              /\ ACTUAL_LOCAL' = ACTUAL_LOCAL
              /\ local' = local /\ t \in local'
              /\ ACTUAL_GLOBAL' = ACTUAL_GLOBAL
              /\ checked' = checked]_vars

\* C23 witness: a thread's new_local() has just panicked, and the session the
\* thread already had still holds its two events, in call order.
C23_Witness ==
    \E t \in Threads :
        /\ last = After(t, "new_local", FALSE)
        /\ t \in local
        /\ Len(ACTUAL_LOCAL[t][1]) = 2
        /\ ACTUAL_LOCAL[t][1][1].n = 1 /\ ACTUAL_LOCAL[t][1][2].n = 2

====
